---- MODULE Spec2Model ----
(***************************************************************************)
(* Model of the remedy ranking application: the Streamlit script           *)
(* (streamlit_app.py), the offline index builder (scripts/build_index.py)  *)
(* and the corpus writer (scripts/ingest_public_domain.py).                *)
(*                                                                         *)
(* Text is a sequence of one-character strings.  Numbers the code keeps as *)
(* floats are kept exact: a raw score is a rational [n, d] with d > 0, a   *)
(* percent is an integer number of tenths of a percent (999 is 99.9), a    *)
(* rubric boost is an integer number of thousandths.                       *)
(***************************************************************************)
EXTENDS Integers, Sequences, FiniteSets, TLC

\* ------------------------------------------------------------------ bounds

\* Longest corpus the model loads, ingests or builds.
MaxDocs == 2
\* Longest corpus file a deployment ships with.
MaxShipped == 51
\* Most runs of the offline scripts on a shipped data directory before the
\* application is started on it.
MaxRuns == 2

\* ------------------------------------------------------- program constants

\* streamlit_app.py:104 and :145, the cap on hits and on returned candidates.
TopN == 50
\* Output dimension of "all-MiniLM-L6-v2" (build_index.py:33).
MiniLMDim == 384
\* Output dimension of "all-mpnet-base-v2" (streamlit_app.py:57).
MpnetDim == 768
\* streamlit_app.py:123, the ceiling of a semantic percent, in tenths.
PctCeiling10 == 999
\* streamlit_app.py:122, the semantic rubric increment (8.0), in thousandths.
SemRubricInc == 8000
\* streamlit_app.py:135, the lexical rubric increment (0.02), in thousandths.
LexRubricInc == 20

\* ------------------------------------------------------------------- text

Upper == <<"C", "D", "F">>
LowerOf == <<"c", "d", "f">>

\* str.lower() on one character.
LowerChar(c) ==
    IF \E i \in 1..Len(Upper) : Upper[i] = c
    THEN LowerOf[CHOOSE i \in 1..Len(Upper) : Upper[i] = c]
    ELSE c

\* str.lower()
Lower(s) == [i \in 1..Len(s) |-> LowerChar(s[i])]

\* str.isspace() on one character.
IsSpace(c) == c \in {" ", "\n"}

\* str.strip() == "" (with "not complaint" for the empty string)
IsBlank(s) == \A i \in 1..Len(s) : IsSpace(s[i])

\* str.split(): the maximal runs of non-whitespace characters, in order.
RECURSIVE SplitFrom(_, _, _)
SplitFrom(s, i, cur) ==
    IF i > Len(s)
    THEN IF cur = <<>> THEN <<>> ELSE <<cur>>
    ELSE IF IsSpace(s[i])
         THEN IF cur = <<>> THEN SplitFrom(s, i + 1, <<>>)
              ELSE <<cur>> \o SplitFrom(s, i + 1, <<>>)
         ELSE SplitFrom(s, i + 1, Append(cur, s[i]))

Split(s) == SplitFrom(s, 1, <<>>)

\* Python's "t in text" on strings: t occurs as a contiguous substring.
Contains(text, t) ==
    \E k \in 0..(Len(text) - Len(t)) :
        \A j \in 1..Len(t) : text[k + j] = t[j]

Max2(a, b) == IF a >= b THEN a ELSE b
Min2(a, b) == IF a <= b THEN a ELSE b

\* ------------------------------------------------------------- arithmetic

\* round(n / d, 0) for d > 0, ties to the even integer (Python's round).
RoundDiv(n, d) ==
    LET q == n \div d
        r == n - q * d
    IN  IF 2 * r < d THEN q
        ELSE IF 2 * r > d THEN q + 1
        ELSE IF q % 2 = 0 THEN q ELSE q + 1

Abs(x) == IF x < 0 THEN 0 - x ELSE x

RECURSIVE Gcd(_, _)
Gcd(a, b) == IF b = 0 THEN a ELSE Gcd(b, a % b)

\* The rational n / d (d # 0) in lowest terms, with a positive denominator.
Rat(n, d) ==
    LET g == Gcd(Abs(n), Abs(d))
        sg == IF d < 0 THEN -1 ELSE 1
    IN  [n |-> sg * (n \div g), d |-> sg * (d \div g)]
RatLess(a, b) == a.n * b.d < b.n * a.d
RatEq(a, b) == a.n * b.d = b.n * a.d
RatIsZero(a) == a.n = 0

\* max(...) of a non-empty sequence of rationals.
RECURSIVE RatMax(_)
RatMax(xs) ==
    IF Len(xs) = 1 THEN xs[1]
    ELSE LET m == RatMax(Tail(xs))
         IN  IF RatLess(xs[1], m) THEN m ELSE xs[1]

\* ---------------------------------------------------------------- inputs

\* The documents a corpus file may hold: name, full_text, rubrics.
Aconite == [name |-> "Aconite",
            full_text |-> <<"F","e","a","r"," ","o","f"," ","c","o","l","d"," ","d","a","r","k">>,
            rubrics |-> << <<"F","e","a","r">> >>]
Bryonia == [name |-> "Bryonia",
            full_text |-> <<"c","o","l","d">>,
            rubrics |-> << >>]
Calcarea == [name |-> "Calcarea",
             full_text |-> <<"C","o","l","d"," ","a","n","d"," ","d","a","m","p"," ","a","i","r">>,
             rubrics |-> << <<"o","f">> >>]

DocPool == {Aconite, Bryonia, Calcarea}

\* Corpus files: sequences of documents with distinct names (the ingest
\* script merges documents by name), at most MaxDocs long.
Corpora ==
    UNION {{c \in [1..n -> DocPool] :
              \A i, j \in 1..n : i # j => c[i].name # c[j].name} : n \in 0..MaxDocs}

\* What extract_from_html and extract_archive_text return for the page of
\* doc: its name and its text (with id and source, which nothing reads),
\* and no "rubrics" key, so that the application reads [] for it.  The
\* extractors return None for a page of under 100 characters; the short
\* texts of the model stand for pages that pass that test, and a page that
\* fails it is a link that yields nothing.
Extract(doc) == [name |-> doc.name, full_text |-> doc.full_text, rubrics |-> <<>>]

\* The documents the candidate links yield, in the order main() visits the
\* links.  Two links may yield the same remedy.
Catalogue == <<Extract(Aconite), Extract(Aconite), Extract(Bryonia)>>

\* The documents at the positions S of xs, in the order of xs.
RECURSIVE Pick(_, _)
Pick(xs, S) ==
    IF xs = <<>> THEN <<>>
    ELSE LET rest == Pick(SubSeq(xs, 1, Len(xs) - 1), S)
         IN  IF Len(xs) \in S THEN Append(rest, xs[Len(xs)]) ELSE rest

\* What the loop of lines 177-221 may collect in one run: a link whose
\* fetch or extraction fails is skipped and the loop goes on, so the
\* documents of any of the links, in link order, at most MaxDocs of them.
Extracted ==
    {Pick(Catalogue, S) : S \in {T \in SUBSET (1..Len(Catalogue)) : Cardinality(T) <= MaxDocs}}

\* The corpus files a deployment may ship with: the documents Aconite,
\* Bryonia and Calcarea repeated from any of them on, cut at any length up
\* to MaxShipped.  load_remedies() keeps whatever list the file holds.
Shipped ==
    LET cycle == <<Aconite, Bryonia, Calcarea>>
    IN  {[i \in 1..n |-> cycle[((i + r) % Len(cycle)) + 1]] :
            n \in 0..MaxShipped, r \in 0..(Len(cycle) - 1)}

\* A JSON file of documents: data/remedies_full.json or
\* data/remedies_master.json.  present is FALSE for a missing file.
NoFile == [present |-> FALSE, docs |-> <<>>]
DocsFile(docs) == [present |-> TRUE, docs |-> docs]

\* The master files a deployment may ship with.
Masters == {NoFile, DocsFile(<<Calcarea>>)}

NamesOf(docs) == [i \in 1..Len(docs) |-> docs[i].name]

\* The complaints a user may submit.
QEmpty == << >>
QSpace == <<" ">>
QFearOld == <<"F","e","a","r"," ","o","l","d">>
QOfDark == <<"o","f"," "," ","D","a","r","k">>

Queries == {QEmpty, QSpace, QFearOld, QOfDark}

\* Raw inner products an index search may report, in hundredths.
ScoreSet == {-50, 0, 100}

\* ---------------------------------------------------------- token_score

\* set([t for t in q.lower().split() if len(t) > 2])
QueryTokens(q) ==
    LET ws == Split(Lower(q))
    IN  {ws[i] : i \in {j \in 1..Len(ws) : Len(ws[j]) > 2}}

\* token_score(q, text): matched distinct tokens over the word count.
token_score(q, text) ==
    IF text = <<>> THEN Rat(0, 1)
    ELSE LET text_l == Lower(text)
             s == Cardinality({t \in QueryTokens(q) : Contains(text_l, t)})
         IN  Rat(s, Max2(1, Len(Split(text_l))))

\* The number of rubrics of a document that occur in the complaint
\* (rub.lower() in complaint.lower()), counted with repetition.
RubricHits(rubrics, complaint) ==
    Cardinality({i \in 1..Len(rubrics) : Contains(Lower(complaint), Lower(rubrics[i]))})

\* --------------------------------------------------- compute_candidates

\* A candidate: idx is the 0-based corpus position of its "remedy", percent
\* is in tenths, score is the raw score, kb the rubric boost in thousandths.
Candidate(idx, percent, score, kb) ==
    [idx |-> idx, percent |-> percent, score |-> score, kb |-> kb]

\* max(...) or 1.0
MaxOrOne(scores) ==
    LET m == RatMax(scores) IN IF RatIsZero(m) THEN Rat(1, 1) ELSE m

\* InsertDesc without reverse=True: x goes after the candidates of score
\* lower than or equal to its own.
RECURSIVE InsertAsc(_, _)
InsertAsc(sorted, x) ==
    IF sorted = <<>> THEN <<x>>
    ELSE IF RatLess(x.score, sorted[1].score)
         THEN <<x>> \o sorted
         ELSE <<sorted[1]>> \o InsertAsc(Tail(sorted), x)

\* sorted(scored, key=score, reverse=True), one candidate at a time: x goes
\* after the candidates of score higher than or equal to its own, so
\* candidates of equal score keep their order.
RECURSIVE InsertDesc(_, _)
InsertDesc(sorted, x) ==
    IF sorted = <<>> THEN <<x>>
    ELSE IF RatLess(sorted[1].score, x.score)
         THEN <<x>> \o sorted
         ELSE <<sorted[1]>> \o InsertDesc(Tail(sorted), x)

RECURSIVE SortDesc(_)
SortDesc(xs) ==
    IF xs = <<>> THEN <<>>
    ELSE InsertDesc(SortDesc(SubSeq(xs, 1, Len(xs) - 1)), xs[Len(xs)])

\* xs[:n] without the cut.
TakeAll(xs, n) == xs

\* xs[:n]
Take(xs, n) == SubSeq(xs, 1, Min2(n, Len(xs)))

\* 0.7 * s + 0.3 * kb, with kb in thousandths.
LexTotal(s, kb) == Rat(7000 * s.n + 3 * kb * s.d, 10000 * s.d)

\* round((score / maxs) * 100, 1), in tenths.
LexPercent(score, maxs) ==
    LET ratio == Rat(score.n * maxs.d, score.d * maxs.n)
    IN  RoundDiv(1000 * ratio.n, ratio.d)

\* The fallback branch of compute_candidates (lines 126-145).
LexicalCandidates(complaint, docs) ==
    LET scored == [i \in 1..Len(docs) |->
                     LET kb == LexRubricInc * RubricHits(docs[i].rubrics, complaint)
                     IN  Candidate(i - 1, 0,
                                   LexTotal(token_score(complaint, docs[i].full_text), kb),
                                   kb)]
    IN  IF Len(scored) = 0 THEN <<>>
        ELSE LET maxs == MaxOrOne([i \in 1..Len(scored) |-> scored[i].score])
                 pct == [i \in 1..Len(scored) |->
                           [scored[i] EXCEPT !.percent = LexPercent(scored[i].score, maxs)]]
             IN  Take(SortDesc(pct), TopN)

\* round(min(99.9, (score / max_score) * 100.0 + kb), 1), in tenths.
SemPercent(score, max_score, kb) ==
    LET ratio == Rat(score.n * max_score.d, score.d * max_score.n)
        x == Rat(100000 * ratio.n + kb * ratio.d, 100 * ratio.d)
    IN  IF x.n > PctCeiling10 * x.d THEN PctCeiling10 ELSE RoundDiv(x.n, x.d)

\* SemLoop without the test "idx in seen".
RECURSIVE SemLoopNoSeen(_, _, _, _, _, _)
SemLoopNoSeen(hits, i, seen, max_score, complaint, docs) ==
    IF i > Len(hits) THEN <<>>
    ELSE LET idx == hits[i].idx
         IN  IF idx >= Len(docs)
             THEN SemLoopNoSeen(hits, i + 1, seen, max_score, complaint, docs)
             ELSE LET kb == SemRubricInc * RubricHits(docs[idx + 1].rubrics, complaint)
                  IN  <<Candidate(idx, SemPercent(hits[i].score, max_score, kb),
                                  hits[i].score, kb)>>
                      \o SemLoopNoSeen(hits, i + 1, seen, max_score, complaint, docs)

\* The loop of lines 111-124 over the hits from position i on.
RECURSIVE SemLoop(_, _, _, _, _, _)
SemLoop(hits, i, seen, max_score, complaint, docs) ==
    IF i > Len(hits) THEN <<>>
    ELSE LET idx == hits[i].idx
         IN  IF idx \in seen \/ idx >= Len(docs)
             THEN SemLoop(hits, i + 1, seen, max_score, complaint, docs)
             ELSE LET kb == SemRubricInc * RubricHits(docs[idx + 1].rubrics, complaint)
                  IN  <<Candidate(idx, SemPercent(hits[i].score, max_score, kb),
                                  hits[i].score, kb)>>
                      \o SemLoop(hits, i + 1, seen \cup {idx}, max_score, complaint, docs)

\* The loop of semantic_search_scores (lines 90-95): the pairs the index
\* returned, without the negative positions.
RECURSIVE KeepFound(_)
KeepFound(found) ==
    IF found = <<>> THEN <<>>
    ELSE IF found[1].idx < 0 THEN KeepFound(Tail(found))
         ELSE <<[idx |-> found[1].idx, score |-> Rat(found[1].score, 100)]>>
              \o KeepFound(Tail(found))

\* The semantic branch of compute_candidates (lines 104-125) on the hits
\* semantic_search_scores returned.
SemanticCandidates(complaint, docs, hits) ==
    IF Len(hits) = 0 THEN <<>>
    ELSE SemLoop(hits, 1, {}, MaxOrOne([i \in 1..Len(hits) |-> hits[i].score]),
                 complaint, docs)

\* ------------------------------------------------------------------ state

VARIABLES
    corpusFile,      \* data/remedies_full.json: the documents, in order
    masterFile,      \* data/remedies_master.json
    embFile,         \* data/embeddings.npy
    faissFile,       \* data/faiss.index
    mapFile,         \* data/remedies_full_index_map.json
    build_out,       \* the closing line of the last run of build_index.main,
                     \* "none" before any run and after a run that raised
    has_faiss,       \* streamlit_app.py:14, the optional imports succeeded
    remedies,        \* the st.cache_data cache of load_remedies()
    use_faiss,       \* streamlit_app.py:43
    index,           \* streamlit_app.py:44
    model,           \* streamlit_app.py:45
    embeddings,      \* streamlit_app.py:46
    index_map,       \* streamlit_app.py:47
    analyze,         \* streamlit_app.py:69, the button of this script run
    complaint_text,  \* streamlit_app.py:68, the text of this script run
    call,            \* the call of compute_candidates of this script run
    shown,           \* the warnings and errors this script run displayed
    last_results,    \* st.session_state['last_results']
    complaint_input  \* st.session_state['complaint_input']

files == <<corpusFile, masterFile, embFile, faissFile, mapFile, build_out>>
engine == <<use_faiss, index, model, embeddings, index_map>>
session == <<last_results, complaint_input>>
run == <<analyze, complaint_text, call, shown>>
vars == <<files, has_faiss, remedies, engine, run, session>>

\* A vector file or object: the documents its rows embed, by name and in
\* row order, and the dimension of a row.  present is FALSE for a missing
\* file and for None.
NoVectors == [present |-> FALSE, readable |-> FALSE, rows |-> <<>>, dim |-> 0]
Vectors(rows, dim) == [present |-> TRUE, readable |-> TRUE, rows |-> rows, dim |-> dim]
\* A vector file that was opened for writing and not written to the end.
CutVectors == [present |-> TRUE, readable |-> FALSE, rows |-> <<>>, dim |-> 0]

NoMap == [present |-> FALSE, readable |-> FALSE, names |-> <<>>]
NameMap(names) == [present |-> TRUE, readable |-> TRUE, names |-> names]
\* The map file after open(OUT_MAP, "w") and an incomplete json.dump.
CutMap == [present |-> TRUE, readable |-> FALSE, names |-> <<>>]

NoModel == [present |-> FALSE, dim |-> 0]
\* SentenceTransformer("all-mpnet-base-v2")
AppModel == [present |-> TRUE, dim |-> MpnetDim]

\* No call of compute_candidates.  Of a call: whether it took the semantic
\* branch, the hits semantic_search_scores returned, the list returned,
\* whether st.error was called and whether the call raised.
NoCall == [made |-> FALSE, semantic |-> FALSE, hits |-> <<>>, ret |-> <<>>,
           err |-> FALSE, raised |-> FALSE]

NoResults == [set |-> FALSE, val |-> <<>>]

\* ------------------------------------------------------ the data directory

\* The files of the data directory and the closing line of the last build.
Disk ==
    [corpus |-> corpusFile, master |-> masterFile, emb |-> embFile,
     faiss |-> faissFile, map |-> mapFile, out |-> build_out]

\* DATA_FULL if os.path.exists(DATA_FULL) else DATA_MASTER
\* (streamlit_app.py:23, build_index.py:17).
DataFile(d) == IF d.corpus.present THEN d.corpus ELSE d.master

\* ------------------------------------------- ingest_public_domain.main

\* Lines 226-234 for one extracted document r: a document of a name that is
\* merged already gets r's text appended after a blank line, any other is
\* added at the end.
MergeOne(merged, r) ==
    IF \E i \in 1..Len(merged) : merged[i].name = r.name
    THEN [i \in 1..Len(merged) |->
             IF merged[i].name = r.name
             THEN [merged[i] EXCEPT !.full_text = @ \o <<"\n", "\n">> \o r.full_text]
             ELSE merged[i]]
    ELSE Append(merged, r)

\* list(merged.values()) after the loop of lines 226-234 over raw.
RECURSIVE Merged(_)
Merged(raw) ==
    IF raw = <<>> THEN <<>>
    ELSE MergeOne(Merged(SubSeq(raw, 1, Len(raw) - 1)), raw[Len(raw)])

\* ingest_public_domain.main() when the links yield raw: the merged
\* documents, or the content of the master file when there are none and
\* the master file exists, replace the corpus file.
ingest_main(d, raw) ==
    LET merged == Merged(raw)
        final == IF Len(merged) = 0 /\ d.master.present THEN d.master.docs ELSE merged
    IN  [d EXCEPT !.corpus = DocsFile(final)]

Ingest(raw) ==
    /\ corpusFile' = ingest_main(Disk, raw).corpus
    /\ UNCHANGED <<masterFile, embFile, faissFile, mapFile, build_out, has_faiss,
                   remedies, engine, run, session>>

\* ----------------------------------------------------- build_index.main

\* Where main() may raise: reading the data file (lines 24-25); loading
\* the model, encoding or np.save before it opens its file (lines 35-42);
\* np.save after it opened the file ("cut_emb"); faiss.write_index before
\* ("write_index") or after ("cut_index") it opened its file (line 51);
\* open(OUT_MAP, "w") (line 55, "open_map"); json.dump (line 56, "cut_map").
BuildSteps ==
    {"read", "encode", "cut_emb", "write_index", "cut_index", "open_map",
     "cut_map", "none"}

\* The steps at which this run of main() can raise: a missing data file
\* raises at line 24, and an empty corpus returns at line 30.
BuildFailures(d) ==
    IF ~DataFile(d).present THEN {"read"}
    ELSE IF Len(DataFile(d).docs) = 0 THEN {"read", "none"}
    ELSE BuildSteps

\* build_index.main() raising at failAt ("none": it returns).  Nothing is
\* written for an empty corpus; otherwise the MiniLM embeddings, the index
\* over them and the name map are written one after the other, each over
\* the file of the last build.  A file written before the exception stays,
\* and the file being written when it is raised is left cut short.
build_main(d, failAt) ==
    LET docs == DataFile(d).docs
        new == Vectors(NamesOf(docs), MiniLMDim)
    IN  IF failAt = "read" THEN [d EXCEPT !.out = "none"]
        ELSE IF Len(docs) = 0 THEN [d EXCEPT !.out = "No documents to encode. Exiting."]
        ELSE [d EXCEPT
                !.emb = CASE failAt = "encode" -> @
                          [] failAt = "cut_emb" -> CutVectors
                          [] OTHER -> new,
                !.faiss = CASE failAt \in {"encode", "cut_emb", "write_index"} -> @
                            [] failAt = "cut_index" -> CutVectors
                            [] OTHER -> new,
                !.map = CASE failAt = "cut_map" -> CutMap
                          [] failAt = "none" -> NameMap(NamesOf(docs))
                          [] OTHER -> @,
                !.out = IF failAt = "none" THEN "Build complete." ELSE "none"]

BuildIndex(failAt) ==
    /\ failAt \in BuildFailures(Disk)
    /\ LET d == build_main(Disk, failAt)
       IN  /\ embFile' = d.emb
           /\ faissFile' = d.faiss
           /\ mapFile' = d.map
           /\ build_out' = d.out
    /\ UNCHANGED <<corpusFile, masterFile, has_faiss, remedies, engine, run, session>>

\* ----------------------------------------------------- the script: loading

\* load_remedies() under st.cache_data: the data file is read on the first
\* script run only, and a missing file reads as no documents.
LoadRemedies ==
    IF remedies.loaded THEN remedies
    ELSE [loaded |-> TRUE, docs |-> DataFile(Disk).docs]

\* Where the try block of lines 50-58 may raise.
LoadSteps == {"index_map", "embeddings", "index", "model", "none"}

\* Lines 43-64: the globals after the load attempt that raises at step
\* failAt ("none": it does not raise).  A global assigned before the
\* exception keeps its value.
LoadEngine(failAt) ==
    IF embFile.present /\ faissFile.present /\ has_faiss
    THEN [index_map  |-> IF mapFile.present /\ failAt # "index_map"
                         THEN mapFile ELSE NoMap,
          embeddings |-> IF failAt \in {"index", "model", "none"}
                         THEN embFile ELSE NoVectors,
          index      |-> IF failAt \in {"model", "none"}
                         THEN faissFile ELSE NoVectors,
          model      |-> IF failAt = "none" THEN AppModel ELSE NoModel,
          use_faiss  |-> failAt = "none",
          msg        |-> IF failAt = "none" THEN "Semantic search mode"
                         ELSE "Failed to load FAISS/index/model"]
    ELSE [index_map |-> NoMap, embeddings |-> NoVectors, index |-> NoVectors,
          model |-> NoModel, use_faiss |-> FALSE,
          msg |-> "FAISS or embeddings not available"]

\* The steps at which the load attempt of this script run can raise: the
\* map is read only if its file exists, and a file that was cut short
\* makes its read raise.
LoadFailures ==
    IF embFile.present /\ faissFile.present /\ has_faiss
    THEN LET upTo == IF mapFile.present /\ ~mapFile.readable THEN {"index_map"}
                     ELSE IF ~embFile.readable THEN {"index_map", "embeddings"}
                     ELSE IF ~faissFile.readable
                          THEN {"index_map", "embeddings", "index"}
                          ELSE LoadSteps
         IN  IF mapFile.present THEN upTo ELSE upTo \ {"index_map"}
    ELSE {"none"}

\* ------------------------------------------- the script: semantic search

\* What index.search(q, k) may return on an index of n rows: k pairs of a
\* position in -1..n-1 and an inner product, by non-increasing product.
FoundSeqs(k, n) ==
    {f \in [1..k -> [idx : -1..(n - 1), score : ScoreSet]] :
        \A i \in 1..(k - 1) : f[i].score >= f[i + 1].score}

\* What the embedding model and the index may do in semantic_search_scores:
\* model.encode raises, the try block raises, or the index answers.  A query
\* vector of another dimension than the index always makes the try block
\* raise.
SearchOutcomes(eng, k) ==
    {[kind |-> "encode_error", found |-> <<>>],
     [kind |-> "search_error", found |-> <<>>]}
    \cup (IF eng.index.dim = eng.model.dim
          THEN {[kind |-> "found", found |-> f] : f \in FoundSeqs(k, Len(eng.index.rows))}
          ELSE {})

\* The condition of line 103.
SemanticPath(eng) ==
    eng.use_faiss /\ eng.model.present /\ eng.index.present /\ eng.embeddings.present

\* compute_candidates(complaint) with the globals eng and the corpus docs,
\* when the embedding model and the index behave as in sem.
compute_candidates(complaint, eng, docs, sem) ==
    IF IsBlank(complaint)
    THEN [made |-> TRUE, semantic |-> FALSE, hits |-> <<>>, ret |-> <<>>,
          err |-> FALSE, raised |-> FALSE]
    ELSE IF SemanticPath(eng)
    THEN CASE sem.kind = "encode_error" ->
                [made |-> TRUE, semantic |-> TRUE, hits |-> <<>>, ret |-> <<>>,
                 err |-> FALSE, raised |-> TRUE]
           [] sem.kind = "search_error" ->
                [made |-> TRUE, semantic |-> TRUE, hits |-> <<>>, ret |-> <<>>,
                 err |-> TRUE, raised |-> FALSE]
           [] OTHER ->
                [made |-> TRUE, semantic |-> TRUE, hits |-> KeepFound(sem.found),
                 ret |-> SemanticCandidates(complaint, docs, KeepFound(sem.found)),
                 err |-> FALSE, raised |-> FALSE]
    ELSE [made |-> TRUE, semantic |-> FALSE, hits |-> <<>>,
          ret |-> LexicalCandidates(complaint, docs),
          err |-> FALSE, raised |-> FALSE]

\* The outcomes of the semantic path that this call can meet, among all.
CallOutcomes(complaint, eng, docs, all) ==
    IF ~IsBlank(complaint) /\ SemanticPath(eng)
    THEN all
    ELSE {[kind |-> "unused", found |-> <<>>]}

\* ------------------------------------------- the script: one script run

\* The assignments of lines 30 and 43-64.
Loaded(eng) ==
    /\ remedies' = LoadRemedies
    /\ use_faiss' = eng.use_faiss
    /\ index' = eng.index
    /\ model' = eng.model
    /\ embeddings' = eng.embeddings
    /\ index_map' = eng.index_map

\* Handler without the test of line 152: an empty complaint goes to
\* compute_candidates like any other.
HandlerUnchecked(text, eng, out, erased) ==
    /\ call' = out
    /\ shown' = {eng.msg}
           \cup (IF out.err THEN {"Semantic search error"} ELSE {})
           \cup (IF out.ret = <<>> THEN {"No candidates found."} ELSE {})
    /\ last_results' = [set |-> TRUE, val |-> out.ret]
    /\ complaint_input' = IF erased THEN <<>> ELSE text

\* Lines 151-164 for a pressed button: what the handler displays and leaves
\* in the session for the complaint text, when compute_candidates ends as
\* out and the assignment to the widget's key is accepted or not (erased).
Handler(text, eng, out, erased) ==
    IF IsBlank(text)
    THEN /\ call' = NoCall
         /\ shown' = {eng.msg, "Please enter a complaint."}
         /\ last_results' = last_results
         /\ complaint_input' = text
    ELSE IF out.raised
    THEN /\ call' = out
         /\ shown' = {eng.msg, "exception"}
         /\ last_results' = last_results
         /\ complaint_input' = text
    ELSE /\ call' = out
         /\ shown' = {eng.msg}
                \cup (IF out.err THEN {"Semantic search error"} ELSE {})
                \cup (IF out.ret = <<>> THEN {"No candidates found."} ELSE {})
         /\ last_results' = [set |-> TRUE, val |-> out.ret]
         /\ complaint_input' = IF erased THEN <<>> ELSE text

\* A script run in which the user has entered text and pressed "Process
\* complaint".
Process(text, failAt, sem, erased) ==
    LET eng == LoadEngine(failAt)
        docs == LoadRemedies.docs
    IN  /\ failAt \in LoadFailures
        /\ Loaded(eng)
        /\ analyze' = TRUE
        /\ complaint_text' = text
        /\ Handler(text, eng, compute_candidates(text, eng, docs, sem), erased)
        /\ UNCHANGED <<files, has_faiss>>

\* A script run without the button: the page is loaded, or the user has
\* left the text area holding text or used another widget.  The text area
\* returns its text, which is the session's value of its key.
Rerun(text, failAt) ==
    LET eng == LoadEngine(failAt)
    IN  /\ failAt \in LoadFailures
        /\ Loaded(eng)
        /\ analyze' = FALSE
        /\ complaint_text' = text
        /\ complaint_input' = text
        /\ call' = NoCall
        /\ shown' = {eng.msg}
        /\ UNCHANGED <<files, has_faiss, last_results>>

\* ---------------------------------------------------------- specification

NoArtifacts == [emb |-> NoVectors, faiss |-> NoVectors, map |-> NoMap]

\* The three artifacts of a complete build over docs with a model of
\* dimension dim.
ArtifactsOf(docs, dim) ==
    [emb |-> Vectors(NamesOf(docs), dim), faiss |-> Vectors(NamesOf(docs), dim),
     map |-> NameMap(NamesOf(docs))]

\* The data directories a deployment may ship with: the corpus and master
\* files of one of sources, and no artifacts or the artifacts of an index
\* built with the model the application loads, from the data file or
\* (stale) from the data file of any of sources.
Deployed(sources, stale) ==
    UNION {LET from == IF stale THEN {DataFile(x) : x \in sources} ELSE {DataFile(src)}
               arts == {NoArtifacts} \cup
                       {ArtifactsOf(b.docs, MpnetDim) : b \in {x \in from : Len(x.docs) > 0}}
           IN  {[corpus |-> src.corpus, master |-> src.master, emb |-> a.emb,
                 faiss |-> a.faiss, map |-> a.map, out |-> "none"] : a \in arts}
           : src \in sources}

\* The state before the first script run of a process started on one of the
\* data directories ds.
Start(ds) ==
    /\ \E d \in ds :
          /\ corpusFile = d.corpus
          /\ masterFile = d.master
          /\ embFile = d.emb
          /\ faissFile = d.faiss
          /\ mapFile = d.map
          /\ build_out = d.out
    /\ has_faiss \in BOOLEAN
    /\ remedies = [loaded |-> FALSE, docs |-> <<>>]
    /\ use_faiss = FALSE
    /\ index = NoVectors
    /\ model = NoModel
    /\ embeddings = NoVectors
    /\ index_map = NoMap
    /\ analyze = FALSE
    /\ complaint_text = <<>>
    /\ call = NoCall
    /\ shown = {}
    /\ last_results = NoResults
    /\ complaint_input = <<>>

\* The corpus and master files of a deployment whose corpus file, if it has
\* one, was written by the ingest script beside its master file.
Ingested ==
    UNION {LET bare == [corpus |-> NoFile, master |-> m]
           IN  {bare} \cup {[bare EXCEPT !.corpus = ingest_main(bare, raw).corpus] :
                              raw \in Extracted}
           : m \in Masters}

\* A script run with the button pressed, on any text, with any failure of
\* the load and any answer of the model and the index.
Submit ==
    \E text \in Queries, failAt \in LoadSteps, erased \in BOOLEAN :
        LET eng == LoadEngine(failAt)
            docs == LoadRemedies.docs
            k == Min2(TopN, Len(docs))
        IN  \E sem \in CallOutcomes(text, eng, docs, SearchOutcomes(eng, k)) :
               Process(text, failAt, sem, erased)

\* The data directories of ds and those one run of the ingest or the build
\* script makes of them.
LeftOnce(ds) ==
    ds \cup {ingest_main(d, raw) : d \in ds, raw \in Extracted}
       \cup UNION {{build_main(d, failAt) : failAt \in BuildFailures(d)} : d \in ds}

\* The data directories at most n runs of the offline scripts make of ds.
RECURSIVE Left(_, _)
Left(ds, n) == IF n = 0 THEN ds ELSE LeftOnce(Left(ds, n - 1))

\* A process of the application on a data directory that was shipped and on
\* which the offline scripts have run at most MaxRuns times: its script
\* runs, with and without the button.
Init == Start(Left(Deployed(Ingested, FALSE), MaxRuns))

Next ==
    \/ Submit
    \/ \E text \in Queries, failAt \in LoadSteps : Rerun(text, failAt)

Spec == Init /\ [][Next]_vars

\* The offline scripts on a shipped data directory: ingests and builds in
\* any order, each build ending or raising at any of its steps.
InitPipeline == Start(Deployed(Ingested, FALSE))

NextPipeline ==
    \/ \E raw \in Extracted : Ingest(raw)
    \/ \E failAt \in BuildSteps : BuildIndex(failAt)

SpecPipeline == InitPipeline /\ [][NextPipeline]_vars

\* The first script run of a process, with the button pressed, on any corpus
\* file and possibly stale artifacts.
InitCall == Start(Deployed({[corpus |-> DocsFile(c), master |-> NoFile] : c \in Corpora}, TRUE))

FirstRun == ~remedies.loaded /\ Submit

SpecCall == InitCall /\ [][FirstRun]_vars

\* The first script run of a deployment that ships a corpus file and no
\* index files, so that every call takes the fallback branch.
InitShipped ==
    /\ Start(Deployed({[corpus |-> DocsFile(c), master |-> NoFile] : c \in Shipped}, FALSE))
    /\ ~faissFile.present

SpecShipped == InitShipped /\ [][FirstRun]_vars

\* ----------------------------------------------------------------- claims

\* The globals of the script as LoadEngine returns them.
Globals ==
    [index_map |-> index_map, embeddings |-> embeddings, index |-> index,
     model |-> model, use_faiss |-> use_faiss, msg |-> ""]

\* The positions of the returned list at which corpus position idx stands.
Places(ret, idx) == {i \in 1..Len(ret) : ret[i].idx = idx}

\* This script run called compute_candidates and the call returned.
Returned == call.made /\ ~call.raised

\* This script run met a failure of the semantic path: the artifacts or the
\* model did not load, or the embedding or the search raised.
SemanticFailure ==
    \/ "Failed to load FAISS/index/model" \in shown
    \/ call.made /\ call.semantic /\ (call.err \/ call.raised)

\* C1: once a script run has met a failure of the semantic path, a call of
\* compute_candidates in the next script run returns the lexical candidates
\* of its query, displays no error and does not raise.
C1_LexicalAfterFailure ==
    [][(SemanticFailure /\ call'.made)
        => /\ ~call'.err
           /\ ~call'.raised
           /\ call'.ret = LexicalCandidates(complaint_text', remedies'.docs)]_vars

\* C2: every percent of a returned list lies in [0, 99.9] in semantic mode
\* and in [1.0, 99.9] in lexical mode.
C2_PercentBounds ==
    Returned =>
        \A i \in 1..Len(call.ret) :
            /\ call.ret[i].percent <= PctCeiling10
            /\ call.ret[i].percent >= (IF call.semantic THEN 0 ELSE 10)

\* C3: semantic mode is selected only when the index and the embedding
\* matrix have the dimension of the query-time model, and a call made with
\* artifacts of another dimension returns the lexical candidates.
C3_DimensionChecked ==
    /\ use_faiss => (index.dim = model.dim /\ embeddings.dim = model.dim)
    /\ (Returned /\ ~IsBlank(complaint_text) /\ faissFile.present
          /\ faissFile.dim # MpnetDim /\ faissFile = index)
         => call.ret = LexicalCandidates(complaint_text, remedies.docs)

\* C4: semantic mode is entered only if the id map, the index and the matrix
\* are as long as the loaded corpus, and a semantic candidate at position i
\* is the document that row i of the index embeds.
C4_AlignmentChecked ==
    /\ use_faiss =>
          /\ Len(index_map.names) = Len(remedies.docs)
          /\ Len(index.rows) = Len(remedies.docs)
          /\ Len(embeddings.rows) = Len(remedies.docs)
    /\ (Returned /\ call.semantic) =>
          \A i \in 1..Len(call.ret) :
              /\ call.ret[i].idx < Len(index.rows)
              /\ remedies.docs[call.ret[i].idx + 1].name = index.rows[call.ret[i].idx + 1]

\* What a caller of compute_candidates receives: the list, or an exception.
Received(out) == [ret |-> out.ret, raised |-> out.raised]

\* C5 as claimed: what compute_candidates gives its caller for an empty or
\* whitespace-only query differs from what this script run's call gave for
\* a non-empty query with zero candidates.
C5_EmptyQueryDistinct ==
    (Returned /\ ~IsBlank(complaint_text) /\ call.ret = <<>>) =>
        \A q \in Queries :
            IsBlank(q) =>
                Received(compute_candidates(q, Globals, remedies.docs,
                                            [kind |-> "unused", found |-> <<>>]))
                    # Received(call)

\* C5 amended: the handler rejects an empty or whitespace-only complaint
\* with "Please enter a complaint." and without calling compute_candidates,
\* and shows "No candidates found." only for a non-empty complaint, for
\* which it shows it whenever the call returned no candidate.
C5_HandlerSignals ==
    analyze =>
        /\ IsBlank(complaint_text) =>
              /\ "Please enter a complaint." \in shown
              /\ "No candidates found." \notin shown
              /\ ~call.made
        /\ ~IsBlank(complaint_text) =>
              /\ "Please enter a complaint." \notin shown
              /\ call.made
              /\ (Returned /\ call.ret = <<>>) <=> "No candidates found." \in shown

\* A whitespace-only complaint was submitted and rejected.
C5_Witness ==
    /\ analyze
    /\ complaint_text = QSpace
    /\ "Please enter a complaint." \in shown
    /\ ~call.made

\* The number of distinct query tokens (lowercase, longer than 2) that
\* occur in the text.
TokensIn(q, text) == Cardinality({t \in QueryTokens(q) : Contains(Lower(text), t)})

WordsIn(text) == Len(Split(text))

\* Lexical mode: this script run's call took the fallback branch.
LexicalCall == Returned /\ ~call.semantic /\ ~IsBlank(complaint_text)

\* Document a stands before document b in the returned list.
Before(ret, a, b) ==
    \A j \in Places(ret, b) : \E i \in Places(ret, a) : i < j

\* C6 as claimed: in lexical mode a document whose text contains strictly
\* more of the query tokens than another's stands before it in the list.
C6_MoreTokensFirst ==
    LexicalCall =>
        \A a, b \in 1..Len(remedies.docs) :
            TokensIn(complaint_text, remedies.docs[a].full_text)
                > TokensIn(complaint_text, remedies.docs[b].full_text)
            => /\ Places(call.ret, a - 1) # {}
               /\ Places(call.ret, b - 1) # {}
               /\ Before(call.ret, a - 1, b - 1)

\* The premise of C6 as amended, of documents a and b of the corpus.
DenserMatch(q, da, db) ==
    /\ TokensIn(q, da.full_text) > TokensIn(q, db.full_text)
    /\ WordsIn(da.full_text) <= WordsIn(db.full_text)
    /\ RubricHits(da.rubrics, q) >= RubricHits(db.rubrics, q)

\* C6 amended: in lexical mode a document whose text contains strictly more
\* of the query tokens than another's, in no more words, and which has at
\* least as many rubrics in the query, stands before it in the list
\* whenever the other is returned.
C6_DenserFirst ==
    LexicalCall =>
        \A a, b \in 1..Len(remedies.docs) :
            DenserMatch(complaint_text, remedies.docs[a], remedies.docs[b])
            => (Places(call.ret, b - 1) # {} => Before(call.ret, a - 1, b - 1))

\* A lexical call returned a later document of the corpus before an
\* earlier one that it matches more densely.
C6_Witness ==
    /\ LexicalCall
    /\ \E a, b \in 1..Len(remedies.docs) :
          /\ a > b
          /\ DenserMatch(complaint_text, remedies.docs[a], remedies.docs[b])
          /\ Places(call.ret, a - 1) # {}
          /\ Places(call.ret, b - 1) # {}
          /\ Before(call.ret, a - 1, b - 1)

\* C7: a returned list is ordered by non-increasing raw score, in both
\* modes, and candidates of equal raw score stand in ascending order of
\* their corpus position.
C7_SortedStable ==
    Returned =>
        \A i, j \in 1..Len(call.ret) :
            i < j =>
                /\ ~RatLess(call.ret[i].score, call.ret[j].score)
                /\ RatEq(call.ret[i].score, call.ret[j].score)
                      => call.ret[i].idx < call.ret[j].idx

\* C8: no returned list holds a corpus position twice, and every position
\* of a returned list is a position of the loaded corpus, whatever the
\* index answered.
C8_NoDuplicates ==
    Returned =>
        \A i \in 1..Len(call.ret) :
            /\ call.ret[i].idx \in 0..(Len(remedies.docs) - 1)
            /\ \A j \in 1..Len(call.ret) : call.ret[i].idx = call.ret[j].idx => i = j

\* A semantic call whose hits held a position of the corpus twice returned
\* a candidate for it.
C8_Witness ==
    /\ Returned
    /\ call.semantic
    /\ \E i, j \in 1..Len(call.hits) :
          /\ i # j
          /\ call.hits[i].idx = call.hits[j].idx
          /\ Places(call.ret, call.hits[i].idx) # {}

\* C9: a run of the index builder that returns leaves the embedding matrix, the index
\* and the id map on disk, each as long as the corpus it was run on, the
\* empty corpus included.
C9_BuildEmitsArtifacts ==
    [][BuildIndex("none") =>
         LET N == Len(DataFile(Disk).docs)
         IN  /\ embFile'.present /\ Len(embFile'.rows) = N
             /\ faissFile'.present /\ Len(faissFile'.rows) = N
             /\ mapFile'.present /\ Len(mapFile'.names) = N]_vars

\* C10: after a script run has answered a complaint with candidates, the
\* session state, which the next script run starts from, holds neither the
\* complaint text nor the list returned for it.
C10_NothingKept ==
    (analyze /\ Returned /\ call.ret # <<>>) =>
        /\ complaint_input # complaint_text
        /\ ~(last_results.set /\ last_results.val = call.ret)

\* A document that matches no token of the complaint and none of its rubrics.
Unmatched(doc) ==
    /\ RatIsZero(token_score(complaint_text, doc.full_text))
    /\ RubricHits(doc.rubrics, complaint_text) = 0

\* C11: in lexical mode, a call with a non-blank complaint on a corpus of N
\* documents returns exactly min(50, N) candidates: the list is empty only
\* for an empty corpus, never longer than 50, holds every document of a
\* corpus of at most 50, and a returned document that matches no token and
\* no rubric has score 0.
C11_LexicalCount ==
    LexicalCall =>
        LET N == Len(remedies.docs)
        IN  /\ Len(call.ret) = Min2(TopN, N)
            /\ Len(call.ret) <= TopN
            /\ (call.ret = <<>>) <=> (N = 0)
            /\ N <= TopN => \A idx \in 0..(N - 1) : Places(call.ret, idx) # {}
            /\ \A i \in 1..Len(call.ret) :
                   /\ call.ret[i].idx \in 0..(N - 1)
                   /\ Unmatched(remedies.docs[call.ret[i].idx + 1])
                         => RatIsZero(call.ret[i].score)

\* A lexical call on a corpus longer than 50 returned 50 candidates, one of
\* them a document that matches nothing.
C11_Witness ==
    /\ LexicalCall
    /\ Len(remedies.docs) > TopN
    /\ Len(call.ret) = TopN
    /\ \E i \in 1..Len(call.ret) :
          /\ Unmatched(remedies.docs[call.ret[i].idx + 1])
          /\ RatIsZero(call.ret[i].score)

====
